---- MODULE Spec2Model ----
(***************************************************************************)
(* Model of the salt-statuscake execution module (module/statuscake.py)    *)
(* and state module (state/statuscake_test.py).                            *)
(*                                                                         *)
(* Python values are tagged records so that values of different Python     *)
(* types can be stored side by side; Python dicts are functions whose      *)
(* DOMAIN is the set of keys, so `k in d` is `k \in DOMAIN d` and a read   *)
(* of a missing key is a KeyError.  A call returns an outcome: a dict, a   *)
(* bare bool, or a raised exception.                                       *)
(***************************************************************************)
EXTENDS Integers, Sequences, FiniteSets, TLC

\* ------------------------------------------------------------------------
\* Python values
\* ------------------------------------------------------------------------
PyInt(n) == [tag |-> "int", int |-> n, str |-> ""]
PyStr(s) == [tag |-> "str", int |-> 0, str |-> s]
PyNone == [tag |-> "none", int |-> 0, str |-> ""]
PyBool(b) == [tag |-> "bool", int |-> IF b THEN 1 ELSE 0, str |-> ""]

\* Python truthiness of a scalar: None, False, 0 and '' are falsy.
Truthy(v) ==
    \/ v.tag \in {"int", "bool"} /\ v.int # 0
    \/ v.tag = "str" /\ v.str # ""

\* `a or b`
Or(a, b) == IF Truthy(a) THEN a ELSE b

\* 'text {0}'.format(arg) and 'text %s' % arg: the template and its argument.
Format(fmt, arg) == [fmt |-> fmt, arg |-> arg]
\* a literal string used as a message
Text(s) == [fmt |-> s, arg |-> PyNone]

\* str(v), as urlencode applies it to each value of a form.
str(v) ==
    CASE v.tag = "int" -> PyStr(ToString(v.int))
      [] v.tag = "bool" -> PyStr(IF v.int = 1 THEN "True" ELSE "False")
      [] v.tag = "none" -> PyStr("None")
      [] OTHER -> v

\* The empty dict {}.
EmptyDict == <<>>

\* `x = v` followed by code that reads x: v is evaluated once and F applied
\* to its value.
Bind(v, F(_)) == CHOOSE r \in {F(x) : x \in {v}} : TRUE

\* Outcomes of a call.
RetDict(d) == [kind |-> "dict", val |-> d]
RetBool(b) == [kind |-> "bool", val |-> b]
Raise(e) == [kind |-> "raise", exc |-> e]

\* JSON bodies decoded by the transport: a list or a dict.
JList(s) == [t |-> "list", v |-> s]
JDict(d) == [t |-> "dict", v |-> d]
\* `key in body` for a string key: key membership for a dict; for a list of
\* dicts no element equals a string.
JNone == [t |-> "none", v |-> <<>>]
JIn(key, j) == j.t = "dict" /\ key \in DOMAIN j.v

\* http_client status codes
OK == 200
NO_CONTENT == 204
INTERNAL_SERVER_ERROR == 500

\* ------------------------------------------------------------------------
\* STATUSCAKE_PARAMS_DEFINITION['test']
\* ------------------------------------------------------------------------
Optional == [mandatory |-> FALSE]
Mandatory == [mandatory |-> TRUE]
MandatoryDefault(v) == [mandatory |-> TRUE, default |-> v]

STATUSCAKE_PARAMS_DEFINITION ==
    [test |->
      [TestID |-> Optional, Paused |-> Optional,
       WebsiteName |-> Mandatory, WebsiteURL |-> Mandatory,
       Port |-> Optional, NodeLocations |-> Optional, Timeout |-> Optional,
       PingURL |-> Optional, Confirmation |-> Optional,
       CheckRate |-> MandatoryDefault(PyInt(300)),
       BasicUser |-> Optional, BasicPass |-> Optional, Public |-> Optional,
       LogoImage |-> Optional, Branding |-> Optional,
       WebsiteHost |-> Optional, Virus |-> Optional, FindString |-> Optional,
       DoNotFind |-> Optional,
       TestType |-> MandatoryDefault(PyStr("HTTP")),
       ContactGroup |-> Optional, RealBrowser |-> Optional,
       TriggerRate |-> Optional, TestTags |-> Optional,
       StatusCodes |-> Optional]]

\* The schema's keys in the order the source declares them.
DeclaredOrder ==
    << "TestID", "Paused", "WebsiteName", "WebsiteURL", "Port",
       "NodeLocations", "Timeout", "PingURL", "Confirmation", "CheckRate",
       "BasicUser", "BasicPass", "Public", "LogoImage", "Branding",
       "WebsiteHost", "Virus", "FindString", "DoNotFind", "TestType",
       "ContactGroup", "RealBrowser", "TriggerRate", "TestTags",
       "StatusCodes" >>

Reverse(s) == [i \in 1..Len(s) |-> s[Len(s) + 1 - i]]

\* dict.items() iterates in an order the language version decides (hash
\* order on Python 2, insertion order on Python 3.7+): the declared order
\* and its reverse stand for the orders a build can produce.
ItemsOrders == {DeclaredOrder, Reverse(DeclaredOrder)}

\* ------------------------------------------------------------------------
\* build_args
\* ------------------------------------------------------------------------
\* One iteration of the loop body for key k: the new args, or the early
\* return.  [ret |-> outcome] ends the loop, [args |-> dict] continues it.
build_args_step_passthrough(k, config, kwargs, args) ==
    [args |-> kwargs @@ args]

build_args_step_nofail(k, config, kwargs, args) ==
    IF k \in DOMAIN kwargs THEN [args |-> (k :> kwargs[k]) @@ args]
    ELSE IF "default" \in DOMAIN config /\ Truthy(config.default)
         THEN [args |-> (k :> config.default) @@ args]
    ELSE [args |-> args]

\* A supplied falsy value of a mandatory field gives way to the default
\* (`kwargs.get(k) or default`).
build_args_step_coalesce(k, config, kwargs, args) ==
    IF config.mandatory
    THEN IF k \notin DOMAIN kwargs \/ ~Truthy(kwargs[k])
         THEN IF "default" \in DOMAIN config
              THEN [args |-> (k :> config.default) @@ args]
              ELSE IF k \in DOMAIN kwargs
              THEN [args |-> (k :> kwargs[k]) @@ args]
              ELSE [ret |-> RetDict([res |-> FALSE,
                        message |-> Format("Mandatory params %s is missing", PyStr(k))])]
         ELSE [args |-> (k :> kwargs[k]) @@ args]
    ELSE IF k \in DOMAIN kwargs
         THEN [args |-> (k :> kwargs[k]) @@ args]
    ELSE IF "default" \in DOMAIN config /\ Truthy(config.default)
         THEN [args |-> (k :> config.default) @@ args]
    ELSE [args |-> args]

\* The default of an absent optional field is used whenever one is declared
\* (`elif 'default' in config`), falsy or not.
build_args_step_any_default(k, config, kwargs, args) ==
    IF config.mandatory
    THEN IF k \notin DOMAIN kwargs
         THEN IF "default" \in DOMAIN config
              THEN [args |-> (k :> config.default) @@ args]
              ELSE [ret |-> RetDict([res |-> FALSE,
                        message |-> Format("Mandatory params %s is missing", PyStr(k))])]
         ELSE [args |-> (k :> kwargs[k]) @@ args]
    ELSE IF k \in DOMAIN kwargs
         THEN [args |-> (k :> kwargs[k]) @@ args]
    ELSE IF "default" \in DOMAIN config
         THEN [args |-> (k :> config.default) @@ args]
    ELSE [args |-> args]

build_args_step(k, config, kwargs, args) ==
    IF config.mandatory
    THEN IF k \notin DOMAIN kwargs
         THEN IF "default" \in DOMAIN config
              THEN [args |-> (k :> config.default) @@ args]
              ELSE [ret |-> RetDict([res |-> FALSE,
                        message |-> Format("Mandatory params %s is missing", PyStr(k))])]
         ELSE [args |-> (k :> kwargs[k]) @@ args]
    ELSE IF k \in DOMAIN kwargs
         THEN [args |-> (k :> kwargs[k]) @@ args]
    ELSE IF "default" \in DOMAIN config /\ Truthy(config.default)
         THEN [args |-> (k :> config.default) @@ args]
    ELSE [args |-> args]

RECURSIVE build_args_loop(_, _, _, _)
build_args_loop(items, schema, kwargs, args) ==
    IF items = <<>>
    THEN RetDict([res |-> TRUE, data |-> args])
    ELSE Bind(build_args_step(Head(items), schema[Head(items)], kwargs, args),
              LAMBDA step :
                 IF "ret" \in DOMAIN step
                 THEN step.ret
                 ELSE build_args_loop(Tail(items), schema, kwargs, step.args))

\* build_args(obj, **kwargs); items is the iteration order of the schema.
build_args(obj, kwargs, items) ==
    IF obj \notin DOMAIN STATUSCAKE_PARAMS_DEFINITION
    THEN Raise("Exception")
    ELSE build_args_loop(items, STATUSCAKE_PARAMS_DEFINITION[obj], kwargs, EmptyDict)

\* ------------------------------------------------------------------------
\* Credentials
\* ------------------------------------------------------------------------
\* __salt__['config.get'](key): the configured value, '' when there is none.
config_get(cfg, key) == IF key \in DOMAIN cfg THEN cfg[key] ELSE PyStr("")

_check_api_key_dotted_only(cfg, api_key) ==
    IF ~Truthy(api_key)
    THEN LET found == config_get(cfg, "statuscake.api_key")
         IN IF ~Truthy(found)
            THEN [res |-> FALSE, message |-> Text("No Statuscake api_key found")]
            ELSE [res |-> TRUE, data |-> found]
    ELSE [res |-> TRUE, data |-> api_key]

_check_api_key(cfg, api_key) ==
    IF ~Truthy(api_key)
    THEN LET found == Or(config_get(cfg, "statuscake.api_key"),
                         config_get(cfg, "statuscake:api_key"))
         IN IF ~Truthy(found)
            THEN [res |-> FALSE, message |-> Text("No Statuscake api_key found")]
            ELSE [res |-> TRUE, data |-> found]
    ELSE [res |-> TRUE, data |-> api_key]

_check_api_username(cfg, username) ==
    IF ~Truthy(username)
    THEN LET found == Or(config_get(cfg, "statuscake.username"),
                         config_get(cfg, "statuscake:username"))
         IN IF ~Truthy(found)
            THEN [res |-> FALSE, message |-> Text("No Statuscake username found")]
            ELSE [res |-> TRUE, data |-> found]
    ELSE [res |-> TRUE, data |-> username]

\* ------------------------------------------------------------------------
\* The remote service behind salt.utils.http.query
\* ------------------------------------------------------------------------
\* The world is the remote account: its tests, in the order the list
\* endpoint returns them, and the identifier the next insert gets.
\* MaxTests bounds the number of remote tests, MaxId the identifiers.
MaxTests == 3
MaxId == 3

TestsUrl == Text("https://www.statuscake.com/API/Tests/")
UpdateUrl == Text("https://www.statuscake.com/API/Tests/Update")
DetailsUrl(id) == Format("https://www.statuscake.com/API/Tests/Details?TestID={0}", id)
DeleteUrl(id) == Format("https://www.statuscake.com/API/Tests/Details/?TestID={0}", id)

\* What the transport can answer to one request:
\*   "ok"        status OK, the endpoint's normal body
\*   "err"       status OK, a body carrying the error indicator
\*   "nocontent" status No Content
\*   "fail"      any other status
Responses == {"ok", "err", "nocontent", "fail"}

HasTest(w, id) == \E i \in 1..Len(w.remote) : w.remote[i].TestID = id
TestWithId(w, id) == w.remote[CHOOSE i \in 1..Len(w.remote) : w.remote[i].TestID = id]
RemoveId(remote, id) == SelectSeq(remote, LAMBDA t : t.TestID # id)

\* Whether the service can accept an insert (the model's bounds).
CanInsert(w) == Len(w.remote) < MaxTests /\ w.next_id <= MaxId

ErrorBody == JDict([ErrNo |-> PyInt(0), Error |-> PyStr("Can not access account")])
FailureBody(msg) == JDict([Success |-> FALSE, Message |-> PyStr(msg)])

\* The answer of the service to one request and the world after it.
http_query(w, url, method, data, resp) ==
    CASE resp = "nocontent" -> [result |-> [status |-> NO_CONTENT], w |-> w]
      [] resp = "fail" ->
            [result |-> [status |-> INTERNAL_SERVER_ERROR, error |-> PyStr("HTTP 500")], w |-> w]
      [] resp = "err" ->
            [result |-> [status |-> OK,
                         dict |-> IF method = "GET" THEN ErrorBody
                                  ELSE FailureBody("Request refused")],
             w |-> w]
      [] OTHER ->
            IF method = "GET" /\ url = TestsUrl
            THEN [result |-> [status |-> OK, dict |-> JList(w.remote)], w |-> w]
            ELSE IF method = "GET"
            THEN [result |-> [status |-> OK,
                              dict |-> IF HasTest(w, url.arg)
                                       THEN JDict(TestWithId(w, url.arg))
                                       ELSE ErrorBody],
                  w |-> w]
            ELSE IF method = "PUT"
            THEN IF CanInsert(w) /\ data.t = "dict" /\ "WebsiteName" \in DOMAIN data.v
                 THEN LET id == PyInt(w.next_id)
                          test == [TestID |-> id, WebsiteName |-> data.v.WebsiteName]
                      IN [result |-> [status |-> OK,
                                      dict |-> JDict([Success |-> TRUE,
                                                      Message |-> PyStr("Test Inserted"),
                                                      InsertID |-> id,
                                                      Data |-> JDict(("TestID" :> id) @@ data.v)])],
                          w |-> [remote |-> Append(w.remote, test), next_id |-> w.next_id + 1]]
                 ELSE [result |-> [status |-> OK, dict |-> FailureBody("Test not inserted")],
                       w |-> w]
            ELSE \* DELETE
                 IF HasTest(w, url.arg)
                 THEN [result |-> [status |-> OK,
                                   dict |-> JDict([Success |-> TRUE,
                                                   Message |-> PyStr("Test deleted")])],
                       w |-> [w EXCEPT !.remote = RemoveId(w.remote, url.arg)]]
                 ELSE [result |-> [status |-> OK, dict |-> FailureBody("No such test")],
                       w |-> w]

\* ------------------------------------------------------------------------
\* Response handling
\* ------------------------------------------------------------------------
\* result.get('status', None) == code
StatusIs(result, code) == "status" \in DOMAIN result /\ result.status = code

_handle_get_result(result) ==
    LET ret == [message |-> Text(""), res |-> TRUE]
    IN IF StatusIs(result, OK)
       THEN LET _result == result.dict
            IN IF JIn("ErrNo", _result)
               THEN RetDict([ret EXCEPT !.res = FALSE,
                                        !.message = Format("%s", _result.v.Error)])
               ELSE RetDict(("data" :> _result) @@ ret)
       ELSE RetDict(ret)

\* The body's Success flag is not looked at.
_handle_generic_result_ignore_success(result) ==
    LET ret == [message |-> Text(""), res |-> TRUE]
    IN IF StatusIs(result, OK)
       THEN RetDict(("raw" :> result.dict) @@
                    [ret EXCEPT !.message = Format("%s", result.dict.v.Message)])
       ELSE IF StatusIs(result, NO_CONTENT)
       THEN RetBool(TRUE)
       ELSE Raise("NameError")

\* In the last branch log.debug(url) reads a name that is bound neither in
\* the function nor in the module: NameError.
_handle_generic_result(result) ==
    LET ret == [message |-> Text(""), res |-> TRUE]
    IN IF StatusIs(result, OK)
       THEN LET _result == result.dict
            IN IF ~_result.v.Success
               THEN RetDict(("raw" :> _result) @@
                            [ret EXCEPT !.res = FALSE,
                                        !.message = Format("%s", _result.v.Message)])
               ELSE RetDict(("raw" :> _result) @@
                            [ret EXCEPT !.message = Format("%s", _result.v.Message)])
       ELSE IF StatusIs(result, NO_CONTENT)
       THEN RetBool(TRUE)
       ELSE Raise("NameError")

\* _urlencode(args): every value goes through str().
_urlencode(args) == [k \in DOMAIN args |-> str(args[k])]

\* ------------------------------------------------------------------------
\* _query: a call yields its outcome, the requests it sent (each with the
\* answer it got and the result the transport returned) and the world after
\* them.
\* ------------------------------------------------------------------------
Done(out, reqs, w) == [out |-> out, reqs |-> reqs, w |-> w]

_query(cfg, w, url, username, api_key, auth, args, method, resp) ==
    LET key == _check_api_key(cfg, api_key)
        user == _check_api_username(cfg, username)
    IN IF auth /\ ~key.res THEN Done(RetDict(key), <<>>, w)
       ELSE IF auth /\ ~user.res THEN Done(RetDict(user), <<>>, w)
       ELSE
         LET content == IF method \in {"POST", "PUT"}
                        THEN [Content_Type |-> PyStr("application/x-www-form-urlencoded")]
                        ELSE EmptyDict
             header_dict == IF auth
                            THEN [API |-> key.data, Username |-> user.data] @@ content
                            ELSE content
             data == IF DOMAIN args # {} THEN JDict(_urlencode(args)) ELSE JNone
             req == [method |-> method, url |-> url, data |-> data,
                     header_dict |-> header_dict, resp |-> resp]
         IN Bind(http_query(w, url, method, data, resp),
                 LAMBDA sent :
                    Done(IF method = "GET" THEN _handle_get_result(sent.result)
                         ELSE _handle_generic_result(sent.result),
                         <<("result" :> sent.result) @@ req>>, sent.w))

\* ------------------------------------------------------------------------
\* Client operations
\* ------------------------------------------------------------------------
get_all_tests(cfg, w, api_key, api_username, resp) ==
    _query(cfg, w, TestsUrl, api_username, api_key, TRUE, EmptyDict, "GET", resp)

get_test(cfg, w, id, api_key, api_username, resp) ==
    _query(cfg, w, DetailsUrl(id), api_username, api_key, TRUE, EmptyDict, "GET", resp)

delete_test(cfg, w, id, api_key, api_username, resp) ==
    _query(cfg, w, DeleteUrl(id), api_username, api_key, TRUE, EmptyDict, "DELETE", resp)

\* add_test: the four named parameters overwrite the same keys of kwargs.
add_test(cfg, w, WebsiteName, WebsiteURL, CheckRate, TestType, api_key, api_username, kwargs, items, resp) ==
    LET kw == [WebsiteName |-> WebsiteName, WebsiteURL |-> WebsiteURL,
               CheckRate |-> CheckRate, TestType |-> TestType] @@ kwargs
    IN Bind(build_args("test", kw, items),
            LAMBDA test :
               IF test.kind = "raise" THEN Done(test, <<>>, w)
               ELSE IF ~test.val.res THEN Done(test, <<>>, w)
               ELSE _query(cfg, w, UpdateUrl, api_username, api_key, TRUE,
                           test.val.data, "PUT", resp))

\* The loop of search_test over the list: result is <<>> for None and
\* <<test>> once a match is kept.
RECURSIVE search_test_loop_first_match(_, _, _, _)
search_test_loop_first_match(data, name, ret, result) ==
    IF data = <<>> THEN [ret |-> ret, result |-> result]
    ELSE LET test == Head(data)
         IN IF test.WebsiteName # name
            THEN search_test_loop_first_match(Tail(data), name, ret, result)
            ELSE IF result # <<>>
            THEN search_test_loop_first_match(Tail(data), name, ret, result)
            ELSE search_test_loop_first_match(Tail(data), name, ret, <<test>>)

RECURSIVE search_test_loop(_, _, _, _)
search_test_loop(data, name, ret, result) ==
    IF data = <<>> THEN [ret |-> ret, result |-> result]
    ELSE LET test == Head(data)
         IN IF test.WebsiteName # name
            THEN search_test_loop(Tail(data), name, ret, result)
            ELSE IF result # <<>>
            THEN search_test_loop(Tail(data), name,
                    [ret EXCEPT !.res = FALSE,
                                !.message = Format("We have multiple test with this name : {0}", name)],
                    result)
            ELSE search_test_loop(Tail(data), name, ret, <<test>>)

\* search_test: with a falsy name the guard goes on to read `url`, a name
\* bound nowhere: NameError.  A list result without 'data' is a KeyError.
search_test(cfg, w, name, api_key, api_username, resp) ==
    LET ret == [message |-> Text(""), res |-> TRUE]
    IN IF ~Truthy(name) THEN Done(Raise("NameError"), <<>>, w)
       ELSE
         Bind(get_all_tests(cfg, w, api_key, api_username, resp),
              LAMBDA q :
                 LET test == q.out.val
                 IN IF ~test.res THEN q
                    ELSE IF "data" \notin DOMAIN test
                    THEN Done(Raise("KeyError"), q.reqs, q.w)
                    ELSE IF test.data.t # "list"
                    THEN Done(Raise("TypeError"), q.reqs, q.w)
                    ELSE
                      Bind(search_test_loop(test.data.v, name, ret, <<>>),
                           LAMBDA end :
                              IF end.result = <<>>
                              THEN Done(RetDict([end.ret EXCEPT !.res = FALSE,
                                          !.message = Format("No test found with this name : {0}", name)]),
                                        q.reqs, q.w)
                              ELSE Done(RetDict(("id" :> end.result[1].TestID) @@ end.ret),
                                        q.reqs, q.w)))

\* ------------------------------------------------------------------------
\* The state module: present and absent
\* ------------------------------------------------------------------------
\* Defaults of present's signature.
present_CheckRate_schema_default == PyInt(300)

present_CheckRate == PyInt(60)
present_TestType == PyStr("HTTP")

\* __opts__['test']
always_apply(o) == FALSE

dry_run(o) == o.test

\* d.get(key, None) for the parameters add_test takes out of **kwargs.
Param(kwargs, key) == IF key \in DOMAIN kwargs THEN kwargs[key] ELSE PyNone
Without(kwargs, keys) == [k \in DOMAIN kwargs \ keys |-> kwargs[k]]

\* present once add_test has ended as a (lines 102-111); s is the search as
\* it ended.
present_added(name, WebsiteName, s, a) ==
    LET ret == [name |-> name, result |-> PyBool(TRUE), comment |-> Text(""),
                changes |-> EmptyDict]
        reqs == s.reqs \o a.reqs
    IN IF a.out.kind = "raise" THEN Done(a.out, reqs, a.w)
       \* added is the bare True: added['res'] is a TypeError
       ELSE IF a.out.kind = "bool" THEN Done(Raise("TypeError"), reqs, a.w)
       ELSE LET added == a.out.val
            IN IF added.res
               THEN IF \/ "raw" \notin DOMAIN added
                       \/ "Data" \notin DOMAIN added.raw.v
                    THEN Done(Raise("KeyError"), reqs, a.w)
                    ELSE Done(RetDict([ret EXCEPT
                           !.changes = [old |-> PyNone,
                                        new |-> added.raw.v.Data],
                           !.comment = Format("Added test {0}.", WebsiteName)]),
                         reqs, a.w)
               ELSE Done(RetDict(("error" :> added.message) @@
                           [ret EXCEPT
                              !.result = PyBool(FALSE),
                              !.comment = Format("Failed to add test {0}.",
                                                 WebsiteName)]),
                         reqs, a.w)

\* A create guarded by a second look at the remote account: when a test of
\* that name exists by now, nothing is sent.
present_add_if_absent(cfg, w, name, WebsiteName, WebsiteURL, CheckRate, TestType, kwargs, items, resp2, s) ==
    IF \E i \in 1..Len(w.remote) : w.remote[i].WebsiteName = WebsiteName
    THEN Done(RetDict([name |-> name, result |-> PyBool(TRUE),
                       comment |-> Text("Not updating because will cannot check data"),
                       changes |-> EmptyDict]),
              s.reqs, w)
    ELSE Bind(add_test(cfg, w, WebsiteName, WebsiteURL, CheckRate, TestType,
                       Param(kwargs, "api_key"), Param(kwargs, "api_username"),
                       Without(kwargs, {"api_key", "api_username"}),
                       items, resp2),
              LAMBDA a : present_added(name, WebsiteName, s, a))

\* The call of add_test made when the search did not succeed and dry-run is
\* off (lines 99-100): w is the remote account when add_test is called.
present_add(cfg, w, name, WebsiteName, WebsiteURL, CheckRate, TestType, kwargs, items, resp2, s) ==
    Bind(add_test(cfg, w, WebsiteName, WebsiteURL, CheckRate, TestType,
                  Param(kwargs, "api_key"), Param(kwargs, "api_username"),
                  Without(kwargs, {"api_key", "api_username"}),
                  items, resp2),
         LAMBDA a : present_added(name, WebsiteName, s, a))

\* present from line 93 on: what it does once search_test has ended as s,
\* the remote account being w by then.  Nothing between the search and the
\* create reads the remote account again.
present_after_search(cfg, w, o, name, WebsiteName, WebsiteURL, CheckRate, TestType, kwargs, items, resp2, s) ==
    LET ret == [name |-> name, result |-> PyBool(TRUE), comment |-> Text(""),
                changes |-> EmptyDict]
    IN IF s.out.kind = "raise" THEN Done(s.out, s.reqs, w)
       ELSE IF ~s.out.val.res
       THEN IF dry_run(o)
            THEN Done(RetDict([ret EXCEPT
                        !.comment = Format("Statuscake test {0} set to be added.",
                                           WebsiteName),
                        !.result = PyNone]),
                      s.reqs, w)
            ELSE present_add(cfg, w, name, WebsiteName, WebsiteURL, CheckRate, TestType,
                             kwargs, items, resp2, s)
       ELSE IF "id" \notin DOMAIN s.out.val
       THEN Done(Raise("KeyError"), s.reqs, w)
       ELSE IF dry_run(o)
       THEN Done(RetDict([ret EXCEPT
                   !.comment = Format("Statuscake tests {0} set to be updated.",
                                      WebsiteName),
                   !.result = PyNone]),
                 s.reqs, w)
       ELSE Done(RetDict([ret EXCEPT
                   !.result = PyBool(TRUE),
                   !.comment = Text("Not updating because will cannot check data")]),
                 s.reqs, w)

present(cfg, w, o, name, WebsiteName, WebsiteURL, CheckRate, TestType, kwargs, items, resp1, resp2) ==
    Bind(search_test(cfg, w, WebsiteName, PyNone, PyNone, resp1),
         LAMBDA s :
            present_after_search(cfg, s.w, o, name, WebsiteName, WebsiteURL, CheckRate,
                                 TestType, kwargs, items, resp2, s))

\* absent takes (name, zone, record_type, ...) and talks to the
\* boto_route53 functions of the host only: it sends nothing to the
\* monitoring service.
\*   bound   whether the call supplies zone and record_type
\*   boto    "unavailable": __salt__ has no boto_route53.get_record;
\*           "record" / "none": what get_record returns
\*   deleted what boto_route53.delete_record returns
absent(w, o, name, bound, boto, deleted) ==
    LET ret == [name |-> name, result |-> PyBool(TRUE), comment |-> Text(""),
                changes |-> EmptyDict]
    IN IF ~bound THEN Done(Raise("TypeError"), <<>>, w)
       ELSE IF boto = "unavailable" THEN Done(Raise("KeyError"), <<>>, w)
       ELSE IF boto = "record"
       THEN IF dry_run(o)
            THEN Done(RetDict([ret EXCEPT
                        !.comment = Format("Route53 record {0} set to be deleted.", name),
                        !.result = PyNone]), <<>>, w)
            ELSE IF deleted
            THEN Done(RetDict([ret EXCEPT
                        !.changes = [old |-> PyStr("record"), new |-> PyNone],
                        !.comment = Format("Deleted {0} Route53 record.", name)]), <<>>, w)
            ELSE Done(RetDict([ret EXCEPT
                        !.result = PyBool(FALSE),
                        !.comment = Format("Failed to delete {0} Route53 record.", name)]),
                      <<>>, w)
       ELSE Done(RetDict([ret EXCEPT !.comment = Format("{0} does not exist.", name)]),
                 <<>>, w)

\* ------------------------------------------------------------------------
\* State
\* ------------------------------------------------------------------------
VARIABLES
    remote,       \* the tests of the remote account, in list order
    next_id,      \* the TestID the service gives the next inserted test
    config,       \* the host configuration read through config.get
    opts,         \* __opts__
    items_order,  \* the order in which this build iterates the schema
    runs,         \* the invocations of present in progress on other hosts:
                  \* each one's position and what its search returned
    last          \* the last call: operation, arguments, outcome, requests
                  \* sent (each with the answer it got), remote tests before

vars == <<remote, next_id, config, opts, items_order, runs, last>>

World == [remote |-> remote, next_id |-> next_id]

\* No invocation in progress.
NoRuns == <<>>

\* ------------------------------------------------------------------------
\* Inputs
\* ------------------------------------------------------------------------
Names == {PyStr("W"), PyStr("V")}
SearchNames == Names \cup {PyStr("")}
Urls == {PyStr("https://w.test")}
Ids == {PyInt(i) : i \in 1..MaxId}

\* Explicit credentials of a client call: (api_key, api_username).
Credentials == {<<PyNone, PyNone>>, <<PyStr("K"), PyStr("U")>>}

\* Host configurations: nothing configured, the dotted spelling, the colon
\* spelling (with an empty dotted value), and an api_key without a username.
NoConfig == EmptyDict
DottedConfig ==
    ("statuscake.api_key" :> PyStr("dK")) @@ ("statuscake.username" :> PyStr("dU"))
ColonConfig ==
    ("statuscake.api_key" :> PyStr("")) @@
    ("statuscake:api_key" :> PyStr("cK")) @@ ("statuscake:username" :> PyStr("cU"))
KeyOnlyConfig == ("statuscake.api_key" :> PyStr("dK"))
Configs == {NoConfig, DottedConfig, ColonConfig, KeyOnlyConfig}

\* What a call of add_test or present gives besides the name and the URL:
\* CheckRate and TestType are optional, the rest is **kwargs.
FieldsChoices ==
    { EmptyDict,
      [CheckRate |-> PyInt(300), TestType |-> PyStr("TCP"), Paused |-> PyInt(0),
       Bogus |-> PyStr("x")] }
PresentFieldsChoices ==
    FieldsChoices \cup {[api_key |-> PyStr("K"), api_username |-> PyStr("U")]}

Named == {"CheckRate", "TestType"}

\* ------------------------------------------------------------------------
\* Actions: one call of one operation
\* ------------------------------------------------------------------------
\* A call made with the outcome r: what it returned or raised, the requests
\* it sent and what they did to the remote account.
Call(op, args, r) ==
    \E x \in {r} :
        /\ last' = [op |-> op, args |-> args, out |-> x.out, reqs |-> x.reqs,
                    before |-> remote]
        /\ remote' = x.w.remote
        /\ next_id' = x.w.next_id
        /\ UNCHANGED <<config, opts, items_order, runs>>

GetAllTests ==
    \E c \in Credentials, resp \in Responses :
        Call("get_all_tests", [api_key |-> c[1], api_username |-> c[2]],
             get_all_tests(config, World, c[1], c[2], resp))

GetTest ==
    \E id \in Ids, c \in Credentials, resp \in Responses :
        Call("get_test", [id |-> id, api_key |-> c[1], api_username |-> c[2]],
             get_test(config, World, id, c[1], c[2], resp))

SearchTest ==
    \E name \in SearchNames, c \in Credentials, resp \in Responses :
        Call("search_test", [name |-> name, api_key |-> c[1], api_username |-> c[2]],
             search_test(config, World, name, c[1], c[2], resp))

AddTest ==
    \E name \in Names, url \in Urls, fields \in FieldsChoices,
       c \in Credentials, resp \in Responses :
        Call("add_test",
             [WebsiteName |-> name, WebsiteURL |-> url, fields |-> fields,
              api_key |-> c[1], api_username |-> c[2]],
             add_test(config, World, name, url,
                      IF "CheckRate" \in DOMAIN fields THEN fields.CheckRate ELSE PyInt(60),
                      IF "TestType" \in DOMAIN fields THEN fields.TestType ELSE PyStr("HTTP"),
                      c[1], c[2], Without(fields, Named), items_order, resp))

DeleteTest ==
    \E id \in Ids, c \in Credentials, resp \in Responses :
        Call("delete_test", [id |-> id, api_key |-> c[1], api_username |-> c[2]],
             delete_test(config, World, id, c[1], c[2], resp))

Present ==
    \E name \in Names, url \in Urls, fields \in PresentFieldsChoices,
       resp1 \in Responses, resp2 \in Responses :
        Call("present",
             [name |-> name, WebsiteName |-> name, WebsiteURL |-> url, fields |-> fields],
             present(config, World, opts, name, name, url,
                     IF "CheckRate" \in DOMAIN fields THEN fields.CheckRate ELSE present_CheckRate,
                     IF "TestType" \in DOMAIN fields THEN fields.TestType ELSE present_TestType,
                     Without(fields, Named), items_order, resp1, resp2))

Absent ==
    \E name \in Names, bound \in BOOLEAN, boto \in {"unavailable", "record", "none"},
       deleted \in BOOLEAN :
        Call("absent", [name |-> name, bound |-> bound, boto |-> boto, deleted |-> deleted],
             absent(World, opts, name, bound, boto, deleted))

\* The host's next run is made with the other test setting
\* (state.apply test=True, then the real run, and so on).
SetOpts ==
    /\ opts' = [test |-> ~opts.test]
    /\ last' = [op |-> "set_opts"]
    /\ UNCHANGED <<remote, next_id, config, items_order, runs>>

\* ------------------------------------------------------------------------
\* Spec: the state module run by the host against the remote account
\* ------------------------------------------------------------------------
Init ==
    /\ remote = <<>>
    /\ next_id = 1
    /\ config \in {NoConfig, ColonConfig}
    /\ opts \in {[test |-> FALSE], [test |-> TRUE]}
    /\ items_order = DeclaredOrder
    /\ runs = NoRuns
    /\ last = [op |-> "init"]

Next ==
    \/ Present
    \/ Absent
    \/ SetOpts

Spec == Init /\ [][Next]_vars

\* ------------------------------------------------------------------------
\* SpecClient: the execution module's operations called directly
\* ------------------------------------------------------------------------
\* The account is empty and has issued identifier 1 before, to a test since
\* deleted.  add_test supplies the four mandatory fields itself, so the
\* iteration order of the schema has no part in these operations (nor in
\* present); SpecBuildArgs varies it.
InitClient ==
    /\ remote = <<>>
    /\ next_id = 2
    /\ config \in Configs
    /\ opts = [test |-> FALSE]
    /\ items_order = DeclaredOrder
    /\ runs = NoRuns
    /\ last = [op |-> "init"]

NextClient ==
    \/ GetAllTests
    \/ GetTest
    \/ SearchTest
    \/ AddTest
    \/ DeleteTest

SpecClient == InitClient /\ [][NextClient]_vars

\* ------------------------------------------------------------------------
\* SpecBuildArgs: build_args applied to a supplied field mapping
\* ------------------------------------------------------------------------
\* The supplied keys are drawn from declared fields of each kind (mandatory
\* without default, mandatory with default, optional) and an undeclared
\* one, the values from a falsy and a non-falsy one.
FieldUniverse == {"WebsiteName", "WebsiteURL", "CheckRate", "TestType", "Paused", "Bogus"}
SampleValues == {PyInt(0), PyStr("x")}
SuppliedFields == UNION {[D -> SampleValues] : D \in SUBSET FieldUniverse}
Objects == {"test", "contact"}

InitBuildArgs ==
    /\ remote = <<>>
    /\ next_id = 1
    /\ config = NoConfig
    /\ opts = [test |-> FALSE]
    /\ items_order \in ItemsOrders
    /\ runs = NoRuns
    /\ \E obj \in Objects, kwargs \in SuppliedFields :
          last = [op |-> "call", args |-> [obj |-> obj, kwargs |-> kwargs]]

BuildArgs ==
    /\ last.op = "call"
    /\ last' = [op |-> "build_args", args |-> last.args,
                out |-> build_args(last.args.obj, last.args.kwargs, items_order)]
    /\ UNCHANGED <<remote, next_id, config, opts, items_order, runs>>

NextBuildArgs == BuildArgs

SpecBuildArgs == InitBuildArgs /\ [][NextBuildArgs]_vars

\* ------------------------------------------------------------------------
\* SpecDeclared: the loop of build_args over the forms a declaration of an
\* optional field can take
\* ------------------------------------------------------------------------
\* The schema as shipped declares every optional field without a default,
\* so the branch for an optional field's default (lines 98-99) is never
\* taken with it.  Here the loop runs over the shipped schema with one
\* optional field declared in each of the forms the loop distinguishes: as
\* shipped, with a falsy default, with a non-falsy default.
OptionalDefault(v) == [mandatory |-> FALSE, default |-> v]
Declarations == {Optional, OptionalDefault(PyInt(0)), OptionalDefault(PyInt(30))}
Redeclarable == {"Paused", "Port"}
Redeclared(k, decl) == [STATUSCAKE_PARAMS_DEFINITION.test EXCEPT ![k] = decl]

DeclaredFieldUniverse == {"WebsiteName", "WebsiteURL", "Paused", "Port"}
DeclaredSuppliedFields == UNION {[D -> SampleValues] : D \in SUBSET DeclaredFieldUniverse}

InitDeclared ==
    /\ remote = <<>>
    /\ next_id = 1
    /\ config = NoConfig
    /\ opts = [test |-> FALSE]
    /\ items_order \in ItemsOrders
    /\ runs = NoRuns
    /\ \E k \in Redeclarable, decl \in Declarations, kwargs \in DeclaredSuppliedFields :
          last = [op |-> "call", args |-> [field |-> k, decl |-> decl, kwargs |-> kwargs]]

BuildArgsDeclared ==
    /\ last.op = "call"
    /\ last' = [op |-> "build_args", args |-> last.args,
                out |-> build_args_loop(items_order,
                                        Redeclared(last.args.field, last.args.decl),
                                        last.args.kwargs, EmptyDict)]
    /\ UNCHANGED <<remote, next_id, config, opts, items_order, runs>>

NextDeclared == BuildArgsDeclared

SpecDeclared == InitDeclared /\ [][NextDeclared]_vars

\* ------------------------------------------------------------------------
\* SpecRace: present applied by two hosts against the same remote account
\* ------------------------------------------------------------------------
\* Each host runs present once.  An invocation is two steps, because the
\* search and what follows it are two separate requests to the service:
\* the call of search_test (line 91), then the rest of present (from line
\* 93), which reads only what the search returned.  Steps of the two hosts
\* interleave in any order.
Hosts == {"A", "B"}

Idle == [at |-> "idle"]

InitRace ==
    /\ remote = <<>>
    /\ next_id = 1
    /\ config \in {NoConfig, ColonConfig}
    /\ opts \in {[test |-> FALSE], [test |-> TRUE]}
    /\ items_order = DeclaredOrder
    /\ runs = [h \in Hosts |-> Idle]
    /\ last = [op |-> "init"]

\* Host h calls present(name, name, url): search_test runs to its end.
RaceSearch(h) ==
    /\ runs[h].at = "idle"
    /\ \E name \in Names, resp1 \in Responses :
         \E s \in {search_test(config, World, name, PyNone, PyNone, resp1)} :
            /\ runs' = [runs EXCEPT ![h] =
                          [at |-> "searched", name |-> name, before |-> remote,
                           s |-> [out |-> s.out, reqs |-> s.reqs]]]
            /\ remote' = s.w.remote
            /\ next_id' = s.w.next_id
    /\ UNCHANGED <<config, opts, items_order, last>>

\* Host h goes on from the search to the end of present.
RaceFinish(h) ==
    /\ runs[h].at = "searched"
    /\ \E url \in Urls, resp2 \in Responses :
         \E r \in {present_after_search(config, World, opts, runs[h].name, runs[h].name,
                                        url, present_CheckRate, present_TestType,
                                        EmptyDict, items_order, resp2, runs[h].s)} :
            /\ runs' = [runs EXCEPT ![h] =
                          [at |-> "done", name |-> runs[h].name,
                           before |-> runs[h].before, s |-> runs[h].s,
                           seen |-> remote, out |-> r.out, reqs |-> r.reqs]]
            /\ remote' = r.w.remote
            /\ next_id' = r.w.next_id
    /\ UNCHANGED <<config, opts, items_order, last>>

NextRace ==
    \/ \E h \in Hosts : RaceSearch(h)
    \/ \E h \in Hosts : RaceFinish(h)

SpecRace == InitRace /\ [][NextRace]_vars

\* ------------------------------------------------------------------------
\* Vocabulary of the properties
\* ------------------------------------------------------------------------
ClientOps == {"get_all_tests", "get_test", "search_test", "add_test", "delete_test"}

Called == "out" \in DOMAIN last
Returned == Called /\ last.out.kind = "dict"
Raised == Called /\ last.out.kind = "raise"

\* The positions of the remote tests named name before the last call.
Matching(name) == {i \in 1..Len(last.before) : last.before[i].WebsiteName = name}

\* The last call fetched the list of tests (its first request is the list
\* request and the service answered it with the list).
ListFetched ==
    /\ Len(last.reqs) >= 1
    /\ last.reqs[1].method = "GET"
    /\ last.reqs[1].url = TestsUrl
    /\ last.reqs[1].resp = "ok"

Writes == {i \in 1..Len(last.reqs) : last.reqs[i].method # "GET"}

Declared == DOMAIN STATUSCAKE_PARAMS_DEFINITION.test
MandatoryWithoutDefault ==
    {k \in Declared : /\ STATUSCAKE_PARAMS_DEFINITION.test[k].mandatory
                      /\ "default" \notin DOMAIN STATUSCAKE_PARAMS_DEFINITION.test[k]}

\* ------------------------------------------------------------------------
\* C1 (SpecClient).  search_test(name), once get_all_tests has returned the
\* list: no entry named name gives a failed result with the not-found
\* message; exactly one gives res true and that entry's TestID as id; two or
\* more give a failed result with the multiple-tests message, not a success
\* resolved to the first match.
\* ------------------------------------------------------------------------
C1_SearchByName ==
    (last.op = "search_test" /\ ListFetched) =>
        LET name == last.args.name
            m == Matching(name)
        IN /\ Returned
           /\ m = {} =>
                /\ ~last.out.val.res
                /\ last.out.val.message = Format("No test found with this name : {0}", name)
           /\ Cardinality(m) = 1 =>
                /\ last.out.val.res
                /\ "id" \in DOMAIN last.out.val
                /\ \A i \in m : last.out.val.id = last.before[i].TestID
           /\ Cardinality(m) >= 2 =>
                /\ ~last.out.val.res
                /\ last.out.val.message =
                      Format("We have multiple test with this name : {0}", name)

C1_Witness_TwoShareTheName ==
    /\ last.op = "search_test"
    /\ ListFetched
    /\ Cardinality(Matching(last.args.name)) >= 2
    /\ Returned
    /\ ~last.out.val.res

\* ------------------------------------------------------------------------
\* present: the cases of the search
\* ------------------------------------------------------------------------
\* The last call was present and its search fetched the list, in which no
\* entry (resp. exactly one entry) carries the WebsiteName.
PresentNoMatch ==
    /\ last.op = "present"
    /\ ListFetched
    /\ Matching(last.args.WebsiteName) = {}

PresentOneMatch ==
    /\ last.op = "present"
    /\ ListFetched
    /\ Cardinality(Matching(last.args.WebsiteName)) = 1

\* The service accepted the create sent as the second request.
CreateSucceeded ==
    /\ Len(last.reqs) = 2
    /\ last.reqs[2].resp = "ok"
    /\ Len(remote) = Len(last.before) + 1

\* ------------------------------------------------------------------------
\* C2 (Spec).  present with CheckRate and TestType omitted, the search
\* finding no match and dry-run off, sends exactly one create (PUT) request,
\* whose payload carries CheckRate=60 and TestType=HTTP; when the create
\* succeeds the decision has result True, changes.old None and changes.new
\* the data the service returned for the created test.
\* ------------------------------------------------------------------------
C2_CreateWithDefaults ==
    (/\ PresentNoMatch
     /\ ~opts.test
     /\ "CheckRate" \notin DOMAIN last.args.fields
     /\ "TestType" \notin DOMAIN last.args.fields) =>
        /\ Writes = {2}
        /\ Len(last.reqs) = 2
        /\ last.reqs[2].method = "PUT"
        /\ last.reqs[2].url = UpdateUrl
        /\ last.reqs[2].data.v.CheckRate = PyStr("60")
        /\ last.reqs[2].data.v.TestType = PyStr("HTTP")
        /\ last.reqs[2].data.v.WebsiteName = last.args.WebsiteName
        /\ CreateSucceeded =>
             /\ Returned
             /\ last.out.val.result = PyBool(TRUE)
             /\ DOMAIN last.out.val.changes = {"old", "new"}
             /\ last.out.val.changes.old = PyNone
             /\ last.out.val.changes.new.v.TestID = remote[Len(remote)].TestID
             /\ last.out.val.changes.new.v.WebsiteName = last.args.WebsiteName
             /\ last.out.val.changes.new.v.CheckRate = PyStr("60")

C2_Witness_Created ==
    /\ PresentNoMatch
    /\ ~opts.test
    /\ "CheckRate" \notin DOMAIN last.args.fields
    /\ "TestType" \notin DOMAIN last.args.fields
    /\ CreateSucceeded
    /\ Returned
    /\ "new" \in DOMAIN last.out.val.changes

\* ------------------------------------------------------------------------
\* C3 (Spec).  present with dry-run on, the search finding no match, sends
\* no write request (no create, update or delete), leaves the remote tests
\* as they were, and returns result None with empty changes.
\* ------------------------------------------------------------------------
C3_DryRunNoWrites ==
    (PresentNoMatch /\ opts.test) =>
        /\ Writes = {}
        /\ remote = last.before
        /\ Returned
        /\ last.out.val.result = PyNone
        /\ DOMAIN last.out.val.changes = {}

C3_Witness_DryRunPending ==
    /\ PresentNoMatch
    /\ opts.test
    /\ Returned
    /\ last.out.val.result = PyNone

\* ------------------------------------------------------------------------
\* C4 (Spec).  When the search returns a match, present sends no create or
\* update request and the decision is a no-op: result True, empty changes
\* and a comment, whatever the desired attributes.
\* ------------------------------------------------------------------------
C4_MatchIsNoOp ==
    PresentOneMatch =>
        /\ Writes = {}
        /\ remote = last.before
        /\ Returned
        /\ last.out.val.result = PyBool(TRUE)
        /\ DOMAIN last.out.val.changes = {}
        /\ last.out.val.comment # Text("")

\* ------------------------------------------------------------------------
\* C5 (SpecClient).  For every client operation, when the transport answers
\* a request with a status other than OK or No Content, the operation
\* returns a result with res false.
\* ------------------------------------------------------------------------
C5_OtherStatusFails ==
    (/\ last.op \in ClientOps
     /\ \E i \in 1..Len(last.reqs) : last.reqs[i].resp = "fail") =>
        /\ Returned
        /\ ~last.out.val.res

\* ------------------------------------------------------------------------
\* C6 (Spec).  present never raises: whatever the search and the create
\* answer, it returns a decision record with name, result, comment and
\* changes.
\* ------------------------------------------------------------------------
C6_PresentNeverRaises ==
    last.op = "present" =>
        /\ Returned
        /\ {"name", "result", "comment", "changes"} \subseteq DOMAIN last.out.val

\* ------------------------------------------------------------------------
\* C7 (SpecClient).  For an authenticated operation each of api_key and
\* username is the explicit argument if given, else the configuration value
\* under the dotted key, else the one under the colon key; if api_key or
\* username is still absent the operation returns a failed result whose
\* message names the missing credential and sends no HTTP request;
\* otherwise the request carries the resolved credentials.
\* ------------------------------------------------------------------------
Configured(key) == IF key \in DOMAIN config THEN config[key] ELSE PyStr("")
Resolved(explicit, dotted, colon) ==
    IF Truthy(explicit) THEN explicit
    ELSE IF Truthy(Configured(dotted)) THEN Configured(dotted)
    ELSE Configured(colon)

\* The last call was a client operation that got as far as its query (all
\* do, except search_test stopped by its guard on the name).
Queried ==
    /\ last.op \in ClientOps
    /\ last.op = "search_test" => Truthy(last.args.name)

C7_CredentialResolution ==
    Queried =>
        LET key == Resolved(last.args.api_key, "statuscake.api_key", "statuscake:api_key")
            user == Resolved(last.args.api_username,
                             "statuscake.username", "statuscake:username")
        IN IF ~Truthy(key)
           THEN /\ last.reqs = <<>>
                /\ Returned
                /\ ~last.out.val.res
                /\ last.out.val.message = Text("No Statuscake api_key found")
           ELSE IF ~Truthy(user)
           THEN /\ last.reqs = <<>>
                /\ Returned
                /\ ~last.out.val.res
                /\ last.out.val.message = Text("No Statuscake username found")
           ELSE /\ Len(last.reqs) = 1
                /\ last.reqs[1].header_dict.API = key
                /\ last.reqs[1].header_dict.Username = user

\* The colon spelling is what resolves the api_key, and the request is sent.
C7_Witness_ColonFallback ==
    /\ Queried
    /\ ~Truthy(last.args.api_key)
    /\ ~Truthy(Configured("statuscake.api_key"))
    /\ Truthy(Configured("statuscake:api_key"))
    /\ Len(last.reqs) = 1
    /\ last.reqs[1].header_dict.API = Configured("statuscake:api_key")

\* ------------------------------------------------------------------------
\* C8 (Spec).  absent(name) searches for the test by name as present does
\* and, with dry-run off and the test present, sends a delete of that test.
\* ------------------------------------------------------------------------
C8_AbsentDeletes ==
    (/\ last.op = "absent"
     /\ ~opts.test
     /\ Cardinality(Matching(last.args.name)) = 1) =>
        /\ \E i \in 1..Len(last.reqs) : last.reqs[i].method = "GET"
        /\ \E i \in 1..Len(last.reqs) : last.reqs[i].method = "DELETE"

\* ------------------------------------------------------------------------
\* C9 (SpecBuildArgs).  A successful build_args('test', **F) returns only
\* fields the schema for 'test' declares: every key of F that the schema
\* does not declare is absent from the result.
\* ------------------------------------------------------------------------
BuildArgsSucceeded ==
    /\ last.op = "build_args"
    /\ last.args.obj = "test"
    /\ Returned
    /\ last.out.val.res

C9_OnlyDeclaredFields ==
    BuildArgsSucceeded =>
        /\ DOMAIN last.out.val.data \subseteq Declared
        /\ \A k \in DOMAIN last.args.kwargs \ Declared : k \notin DOMAIN last.out.val.data

C9_Witness_UndeclaredSupplied ==
    /\ BuildArgsSucceeded
    /\ "Bogus" \in DOMAIN last.args.kwargs
    /\ "Bogus" \notin Declared
    /\ "Paused" \in DOMAIN last.out.val.data

\* ------------------------------------------------------------------------
\* C10 (SpecBuildArgs).  When a mandatory field without a declared default
\* (WebsiteName, WebsiteURL) is absent from the supplied fields, build_args
\* returns a failure (res false) whose message names a field that is
\* mandatory, default-less and missing, and the result carries no data,
\* whatever other fields were supplied.
\* ------------------------------------------------------------------------
MissingMandatory == MandatoryWithoutDefault \ DOMAIN last.args.kwargs

C10_MissingMandatoryFails ==
    (/\ last.op = "build_args"
     /\ last.args.obj = "test"
     /\ MissingMandatory # {}) =>
        /\ Returned
        /\ ~last.out.val.res
        /\ "data" \notin DOMAIN last.out.val
        /\ \E k \in MissingMandatory :
              last.out.val.message = Format("Mandatory params %s is missing", PyStr(k))

\* Both are missing while other fields are supplied, and the field named
\* depends on the iteration order.
C10_Witness_BothMissing ==
    /\ last.op = "build_args"
    /\ last.args.obj = "test"
    /\ MandatoryWithoutDefault = {"WebsiteName", "WebsiteURL"}
    /\ MissingMandatory = {"WebsiteName", "WebsiteURL"}
    /\ "Paused" \in DOMAIN last.args.kwargs
    /\ Returned
    /\ last.out.val.message = Format("Mandatory params %s is missing", PyStr("WebsiteURL"))

\* ------------------------------------------------------------------------
\* C11 (SpecBuildArgs).  For every mandatory field of the 'test' schema that
\* declares a default (CheckRate, TestType), a successful build_args maps the
\* field to its declared default (300, 'HTTP') when it is absent from the
\* supplied fields and to the supplied value, unchanged, when it is supplied.
\* ------------------------------------------------------------------------
MandatoryWithDefault ==
    {k \in Declared : /\ STATUSCAKE_PARAMS_DEFINITION.test[k].mandatory
                      /\ "default" \in DOMAIN STATUSCAKE_PARAMS_DEFINITION.test[k]}

C11_MandatoryDefaults ==
    BuildArgsSucceeded =>
        /\ MandatoryWithDefault = {"CheckRate", "TestType"}
        /\ \A k \in MandatoryWithDefault :
              /\ k \in DOMAIN last.out.val.data
              /\ last.out.val.data[k] =
                    IF k \in DOMAIN last.args.kwargs
                    THEN last.args.kwargs[k]
                    ELSE IF k = "CheckRate" THEN PyInt(300) ELSE PyStr("HTTP")

\* CheckRate is omitted and gets 300; TestType is supplied as the falsy 0
\* and is kept as 0.
C11_Witness_DefaultAndVerbatim ==
    /\ BuildArgsSucceeded
    /\ "CheckRate" \notin DOMAIN last.args.kwargs
    /\ last.out.val.data.CheckRate = PyInt(300)
    /\ "TestType" \in DOMAIN last.args.kwargs
    /\ last.args.kwargs.TestType = PyInt(0)
    /\ last.out.val.data.TestType = PyInt(0)

\* ------------------------------------------------------------------------
\* C12 (SpecRace).  With dry-run off, an invocation of present whose search
\* fetched the list and found no test of its name issues the create whatever
\* the remote account holds by then (no lock, no second look): so two
\* invocations for one name that both searched before either created both
\* create, and two remote tests of that name result.
\* ------------------------------------------------------------------------
\* The search of host h fetched the list and found no test named as asked.
SawNotFound(h) ==
    /\ runs[h].at \in {"searched", "done"}
    /\ Len(runs[h].s.reqs) = 1
    /\ runs[h].s.reqs[1].resp = "ok"
    /\ runs[h].s.out.kind = "dict"
    /\ ~runs[h].s.out.val.res
    /\ \A i \in 1..Len(runs[h].before) : runs[h].before[i].WebsiteName # runs[h].name

\* The invocation of host h sent a create for its name.
SentCreate(h) ==
    /\ runs[h].at = "done"
    /\ Len(runs[h].reqs) = 2
    /\ runs[h].reqs[2].method = "PUT"
    /\ runs[h].reqs[2].url = UpdateUrl
    /\ runs[h].reqs[2].data.v.WebsiteName = runs[h].name

\* ... and the service created the test.
Created(h) ==
    /\ SentCreate(h)
    /\ runs[h].out.kind = "dict"
    /\ "new" \in DOMAIN runs[h].out.val.changes

SameNamed(tests, name) == {i \in 1..Len(tests) : tests[i].WebsiteName = name}

C12_StaleSearchStillCreates ==
    /\ \A h \in DOMAIN runs :
          (runs[h].at = "done" /\ ~opts.test /\ SawNotFound(h)) => SentCreate(h)
    /\ \A name \in Names :
          Cardinality(SameNamed(remote, name)) =
             Cardinality({h \in DOMAIN runs : Created(h) /\ runs[h].name = name})

\* Both hosts searched for the same name, both saw 'not found', both
\* created: the second create was sent while a test of that name existed,
\* and the account holds two tests of that name.
C12_Witness_Duplicate ==
    /\ DOMAIN runs = Hosts
    /\ ~opts.test
    /\ \A h \in Hosts : SawNotFound(h) /\ Created(h)
    /\ \A h, g \in Hosts : runs[h].name = runs[g].name
    /\ \E h \in Hosts : SameNamed(runs[h].seen, runs[h].name) # {}
    /\ \A h \in Hosts : Cardinality(SameNamed(remote, runs[h].name)) = 2

\* ------------------------------------------------------------------------
\* C13 (SpecClient).  When the transport returns status OK to the request of
\* an operation: a read (get_all_tests, get_test) whose body carries ErrNo
\* returns res false with the body's Error as message and no data, and
\* otherwise res true with the body as data; a write (add_test, delete_test)
\* whose body has Success false returns res false with the body's Message,
\* and otherwise res true with the body as raw.  search_test passes on the
\* failed result of its list request.
\* ------------------------------------------------------------------------
\* The last call sent one request and the transport returned status OK.
AnsweredOK ==
    /\ last.op \in ClientOps
    /\ Len(last.reqs) = 1
    /\ StatusIs(last.reqs[1].result, OK)

Body == last.reqs[1].result.dict

C13_OKBodyDecides ==
    AnsweredOK =>
        /\ Returned
        /\ last.op \in {"get_all_tests", "get_test"} =>
              IF Body.t = "dict" /\ "ErrNo" \in DOMAIN Body.v
              THEN /\ ~last.out.val.res
                   /\ last.out.val.message = Format("%s", Body.v.Error)
                   /\ "data" \notin DOMAIN last.out.val
              ELSE /\ last.out.val.res
                   /\ last.out.val.data = Body
        /\ (last.op = "search_test" /\ Body.t = "dict" /\ "ErrNo" \in DOMAIN Body.v) =>
              /\ ~last.out.val.res
              /\ last.out.val.message = Format("%s", Body.v.Error)
        /\ last.op \in {"add_test", "delete_test"} =>
              /\ last.reqs[1].method \in {"PUT", "DELETE"}
              /\ last.out.val.raw = Body
              /\ last.out.val.message = Format("%s", Body.v.Message)
              /\ last.out.val.res = Body.v.Success

\* A delete of a test that does not exist: status OK, Success false.
C13_Witness_WriteRefused ==
    /\ AnsweredOK
    /\ last.op = "delete_test"
    /\ last.reqs[1].resp = "ok"
    /\ ~Body.v.Success
    /\ Returned
    /\ ~last.out.val.res
    /\ last.out.val.message = Format("%s", PyStr("No such test"))

\* ------------------------------------------------------------------------
\* C14 (SpecDeclared).  In a successful build_args result, every optional
\* field of the schema is: the supplied value, unchanged, when it is
\* supplied (also a falsy one); its declared default when it is absent and
\* the default is non-falsy; left out when it is absent and has no default
\* or a falsy one.
\* ------------------------------------------------------------------------
SchemaInUse == Redeclared(last.args.field, last.args.decl)
OptionalFields == {k \in DOMAIN SchemaInUse : ~SchemaInUse[k].mandatory}

LoopSucceeded ==
    /\ last.op = "build_args"
    /\ Returned
    /\ last.out.val.res

C14_OptionalFields ==
    LoopSucceeded =>
        \A k \in OptionalFields :
           IF k \in DOMAIN last.args.kwargs
           THEN /\ k \in DOMAIN last.out.val.data
                /\ last.out.val.data[k] = last.args.kwargs[k]
           ELSE IF "default" \in DOMAIN SchemaInUse[k] /\ Truthy(SchemaInUse[k].default)
           THEN /\ k \in DOMAIN last.out.val.data
                /\ last.out.val.data[k] = SchemaInUse[k].default
           ELSE k \notin DOMAIN last.out.val.data

\* Paused is declared with the default 30 and not supplied: it gets 30;
\* Port is supplied as the falsy 0 and is kept; TestID, as shipped without a
\* default and not supplied, is left out.
C14_Witness_DefaultAndFalsy ==
    /\ LoopSucceeded
    /\ last.args.field = "Paused"
    /\ last.args.decl = OptionalDefault(PyInt(30))
    /\ "Paused" \notin DOMAIN last.args.kwargs
    /\ last.out.val.data.Paused = PyInt(30)
    /\ "Port" \in DOMAIN last.args.kwargs
    /\ last.args.kwargs.Port = PyInt(0)
    /\ last.out.val.data.Port = PyInt(0)
    /\ "TestID" \notin DOMAIN last.out.val.data

\* Port is declared with the falsy default 0 and not supplied: left out.
C14_FalsyDefaultLeftOut ==
    /\ LoopSucceeded
    /\ last.args.field = "Port"
    /\ last.args.decl = OptionalDefault(PyInt(0))
    /\ "Port" \notin DOMAIN last.args.kwargs
    /\ "Port" \notin DOMAIN last.out.val.data

\* ------------------------------------------------------------------------
\* C15 (Spec).  present sends no create when at least one remote test
\* already carries the WebsiteName: a call of present never raises the
\* number of remote tests of that name once it is at least one, also when
\* it is two or more and the search reports the ambiguous match.
\* ------------------------------------------------------------------------
C15_NoCreateWhenPresent ==
    (last.op = "present" /\ Matching(last.args.WebsiteName) # {}) =>
        /\ \A i \in 1..Len(last.reqs) : last.reqs[i].method # "PUT"
        /\ Cardinality(SameNamed(remote, last.args.WebsiteName)) <=
              Cardinality(Matching(last.args.WebsiteName))

\* The same for the calls whose search fetched the list: those that see
\* two or more tests of the name.
C15_NoCreateWhenAmbiguous ==
    (/\ last.op = "present"
     /\ ListFetched
     /\ Cardinality(Matching(last.args.WebsiteName)) >= 2) =>
        \A i \in 1..Len(last.reqs) : last.reqs[i].method # "PUT"

\* ------------------------------------------------------------------------
\* C16 (Spec).  The dry-run of present predicts the real run: with the list
\* fetched and the service accepting a create, present with dry-run on
\* returns result None exactly when present with dry-run off, for the same
\* remote tests and arguments, sends a write and reports non-empty changes;
\* with a matching test in place the dry-run reports no pending change.
\* ------------------------------------------------------------------------
\* The last call of present made again with dry-run off, the transport
\* answering the search as it did and accepting the create.
RealRun ==
    present(config, [remote |-> last.before, next_id |-> next_id], [test |-> FALSE],
            last.args.name, last.args.WebsiteName, last.args.WebsiteURL,
            IF "CheckRate" \in DOMAIN last.args.fields
            THEN last.args.fields.CheckRate ELSE present_CheckRate,
            IF "TestType" \in DOMAIN last.args.fields
            THEN last.args.fields.TestType ELSE present_TestType,
            Without(last.args.fields, Named), items_order, last.reqs[1].resp, "ok")

RealRunChanges ==
    /\ \E i \in 1..Len(RealRun.reqs) : RealRun.reqs[i].method # "GET"
    /\ RealRun.out.kind = "dict"
    /\ DOMAIN RealRun.out.val.changes # {}

C16_DryRunPredicts ==
    (/\ last.op = "present"
     /\ opts.test
     /\ ListFetched
     /\ CanInsert(World)) =>
        /\ Returned
        /\ (last.out.val.result = PyNone) <=> RealRunChanges
        /\ Matching(last.args.WebsiteName) # {} => last.out.val.result # PyNone

====
